---- MODULE Spec2Model ----
(***************************************************************************)
(* State-machine model of the vendetta-debug console (src/index.js): a     *)
(* WebSocket server whose "connection" handler builds, per connection, a   *)
(* message handler, a REPL and a close handler around one closure-local    *)
(* pending callback (finishCallback), and one module-level flag            *)
(* (isPrompting) shared by every connection.                               *)
(*                                                                         *)
(* Every Node event handler runs to completion, so each handler is one     *)
(* action.  Texts are sequences of one-character strings so that trim()    *)
(* is computed; inbound payloads carry what JSON.parse makes of them.      *)
(***************************************************************************)
EXTENDS Integers, Sequences, FiniteSets, TLC

\* ------------------------------------------------------------------ bounds
MaxConns == 2    \* connections accepted in one run
MaxCmds  == 2    \* lines submitted to the REPLs in one run
MaxMsgs  == 2    \* inbound messages in one run

Conns == 1..MaxConns

None == 0        \* finishCallback === undefined

VARIABLES
    silentLvl,        \* const silentLvl (0..2)
    onConnectedCode,  \* let onConnectedCode: [present, text]
    listening,        \* the server has emitted "listening"
    isPrompting,      \* let isPrompting (module level, shared)
    nConns,           \* connections accepted so far
    ws,               \* ws[c]: "none" | "open" | "closed"
    rl,               \* rl[c]: "none" | "alive" | "closed"
    finishCallback,   \* finishCallback[c]: None or the id of a recorded cb
    sent,             \* sent[c]: what ws.send was given, in order
    nCmds,            \* lines submitted so far (cb ids are 1..nCmds)
    nMsgs,            \* inbound messages handled so far
    last              \* what the handler that produced this state did

vars == <<silentLvl, onConnectedCode, listening, isPrompting, nConns, ws, rl,
          finishCallback, sent, nCmds, nMsgs, last>>

\* ------------------------------------------------------------- input data
WS == {" ", "\n", "\t"}

\* operator lines as the REPL hands them to eval
Inputs == { <<"\n">>, <<" ", "\n">>, <<" ", "1", "\n">> }

\* String.prototype.trim
RECURSIVE TrimLeft(_)
TrimLeft(s) == IF s = <<>> THEN <<>>
               ELSE IF Head(s) \in WS THEN TrimLeft(Tail(s)) ELSE s

RECURSIVE TrimRight(_)
TrimRight(s) == IF s = <<>> THEN <<>>
                ELSE IF s[Len(s)] \in WS THEN TrimRight(SubSeq(s, 1, Len(s) - 1))
                ELSE s

trim(s) == TrimRight(TrimLeft(s))

\* inbound payloads: the wire text and what JSON.parse(text) yields
\*   form "object":  {"message": m, "level": l}
\*   form "scalar":  a JSON number/string; destructuring gives undefined
\*   form "null":    JSON null; destructuring throws TypeError
\*   form "invalid": not JSON; JSON.parse throws SyntaxError
Payloads ==
    { [text |-> "{message:boom,level:3}", form |-> "object",  message |-> "boom", level |-> 3],
      [text |-> "hello",                  form |-> "invalid", message |-> "undefined", level |-> -1] }

NoData == [text |-> "", form |-> "none", message |-> "undefined", level |-> -1]

\* values of onConnectedCode after lines 82-92
OnConnectedCodes ==
    { [present |-> FALSE, text |-> <<>>],          \* undefined: no path given
      [present |-> TRUE,  text |-> <<>>],          \* the file is empty
      [present |-> TRUE,  text |-> <<"i", "(", ")">>] }

\* JavaScript truthiness of onConnectedCode (undefined and "" are falsy)
TruthyMutA(code) == code.present
Truthy(code) == code.present /\ code.text /= <<>>

\* --------------------------------------------------------- presentation
\* one written line: a coloured "[tag] " prefix (tag "" = no prefix) and a body
Line(tag, tagColor, body, bodyColor) ==
    [tag |-> tag, tagColor |-> tagColor, body |-> body, bodyColor |-> bodyColor]

\* colorise(message, source, color): color(`[${source}] `) + message
colorise(body, bodyColor, source, color) == Line(source, color, body, bodyColor)

\* safeLog(data): console.log((isPrompting ? "\n" : "") + data)
safeLog(line, prompting) == [line |-> line, nl |-> prompting, stream |-> "stdout"]

\* console.error(error)
consoleError(what) ==
    [line |-> Line("", "none", what, "none"), nl |-> FALSE, stream |-> "stderr"]

\* discordColorise(data): [threw, line]
discordColorise(data) ==
    IF data.form \in {"invalid", "null"}
    THEN [threw |-> TRUE, line |-> Line("", "none", "", "none")]
    ELSE LET bodyColor == CASE data.form = "object" /\ data.level = 0 -> "cyan"
                            [] data.form = "object" /\ data.level = 2 -> "yellow"
                            [] data.form = "object" /\ data.level = 3 -> "red"
                            [] OTHER -> "none"
         IN [threw |-> FALSE,
             line  |-> colorise(data.message, bodyColor, "Vendetta", "cyan")]

\* discordLog(message): [threw, out]
discordLogMutA(data, prompting) ==
    LET r == discordColorise(data)
    IN IF r.threw THEN [threw |-> TRUE, out |-> <<>>]
       ELSE [threw |-> FALSE, out |-> <<safeLog(r.line, prompting)>>]
discordLog(data, prompting) ==
    IF silentLvl = 2
    THEN [threw |-> FALSE,
          out   |-> <<safeLog(Line("", "none", data.text, "none"), prompting)>>]
    ELSE LET r == discordColorise(data)
         IN IF r.threw THEN [threw |-> TRUE, out |-> <<>>]
            ELSE [threw |-> FALSE, out |-> <<safeLog(r.line, prompting)>>]

\* debuggerColorise(message)
debuggerColorise(message) == colorise(message, "none", "Debugger", "magenta.bold")

\* debuggerLog(message): at silentLvl 2 it reads the undeclared name `messag`
debuggerLog(message, prompting) ==
    IF silentLvl = 2
    THEN [threw |-> TRUE, out |-> <<>>, calls |-> 1]
    ELSE [threw |-> FALSE, calls |-> 1,
          out |-> <<safeLog(debuggerColorise(message), prompting)>>]

\* debuggerError(error, isReturning): the tagged line, then either the error
\* is returned to the caller or console.error(error) prints it
debuggerError(prompting, isReturning) ==
    IF isReturning
    THEN << safeLog(colorise("Error", "none", "Debugger", "red.bold"), prompting) >>
    ELSE << safeLog(colorise("Error", "none", "Debugger", "red.bold"), prompting),
            consoleError("error") >>

\* no debuggerLog call
NoNotice == [threw |-> FALSE, out |-> <<>>, calls |-> 0]

\* the guarded notices: if (silentLvl < 2) debuggerLog(message)
noticeMutA(message, prompting) ==
    IF silentLvl < 1 THEN debuggerLog(message, prompting) ELSE NoNotice
noticeMutB(message, prompting) == debuggerLog(message, prompting)
notice(message, prompting) ==
    IF silentLvl < 2 THEN debuggerLog(message, prompting) ELSE NoNotice

\* the REPL's writer option: [threw, line, out], line being the returned text
\* the REPL writes and out what debuggerError logs on the way
writerMutA(data, prompting) ==
    IF data.form = "error"
    THEN [threw |-> FALSE, line |-> Line("", "none", data.text, "none"),
          out |-> debuggerError(prompting, TRUE)]
    ELSE [threw |-> FALSE, line |-> Line("", "none", data.text, "none"),
          out |-> <<>>]
writer(data, prompting) ==
    IF data.form = "error"
    THEN [threw |-> FALSE, line |-> Line("", "none", data.text, "none"),
          out |-> debuggerError(prompting, TRUE)]
    ELSE LET r == discordColorise(data)
         IN [threw |-> r.threw, line |-> r.line, out |-> <<>>]

\* the REPL writing writer(ret) to its output
replWrite(line) == [line |-> line, nl |-> FALSE, stream |-> "repl"]

\* ------------------------------------------------------------- last step
Step(op, c, route, cb, threw, data, input, out) ==
    [op |-> op, conn |-> c, route |-> route, cb |-> cb, threw |-> threw,
     data |-> data, input |-> input, out |-> out, dbgLog |-> 0]

\* a handler that only prints notices; dbgLog counts its debuggerLog calls
NoticeStep(op, c, r) ==
    [Step(op, c, "none", None, r.threw, NoData, <<>>, r.out)
        EXCEPT !.dbgLog = r.calls]

\* two notices in a row
both(r1, r2) ==
    [threw |-> r1.threw \/ r2.threw, out |-> r1.out \o r2.out,
     calls |-> r1.calls + r2.calls]

\* the welcome message: if (silentLvl < 1) console.log(...)
bannerMutA ==
    IF silentLvl < 2
    THEN <<[line |-> Line("", "none", "Welcome", "none"),
            nl |-> FALSE, stream |-> "stdout"]>>
    ELSE <<>>
banner ==
    IF silentLvl < 1
    THEN <<[line |-> Line("", "none", "Welcome", "none"),
            nl |-> FALSE, stream |-> "stdout"]>>
    ELSE <<>>

\* ------------------------------------------------------------------ Init
Init ==
    /\ silentLvl \in 0..2
    /\ onConnectedCode \in OnConnectedCodes
    /\ listening = FALSE
    /\ isPrompting = FALSE
    /\ nConns = 0
    /\ ws = [c \in Conns |-> "none"]
    /\ rl = [c \in Conns |-> "none"]
    /\ finishCallback = [c \in Conns |-> None]
    /\ sent = [c \in Conns |-> <<>>]
    /\ nCmds = 0
    /\ nMsgs = 0
    /\ last = Step("start", 0, "none", None, FALSE, NoData, <<>>, banner)

\* --------------------------------------------------------------- actions
\* `let finishCallback` is declared inside the connection handler: each
\* connection's closure has its own slot
SlotMutA(c) == 1
Slot(c) == c

\* if (finishCallback): the route taken for an inbound message
routeToCallbackMutA(k, data) == k /= None /\ data.form /= "object"
routeToCallback(k, data) == k /= None

\* the slot after the eval's try block: `finishCallback = cb` follows ws.send
slotAfterSendMutA(old, k, sendThrows) == k
slotAfterSend(old, k, sendThrows) == IF sendThrows THEN old ELSE k

\* the slot after connection setup: the on-connect send records no callback
slotAfterConnectMutA(code) == IF code.present /\ code.text /= <<>> THEN 1 ELSE None
slotAfterConnect(code) == None

\* isPrompting after connection setup: false at line 158, true at line 202
promptAfterSetupMutA(old) == FALSE
promptAfterSetup(old) == TRUE

\* if (!input.trim())
isBlankMutA(input) == input = <<>>
isBlank(input) == trim(input) = <<>>

\* wss.on("listening")
Listening ==
    /\ ~listening
    /\ listening' = TRUE
    /\ last' = NoticeStep("listening", 0, notice("Listening", isPrompting))
    /\ UNCHANGED <<silentLvl, onConnectedCode, isPrompting, nConns, ws, rl,
                   finishCallback, sent, nCmds, nMsgs>>

\* wss.on("connection"): the whole handler, REPL creation and on-connect send
Connection ==
    /\ listening
    /\ nConns < MaxConns
    /\ LET c == nConns + 1 IN
       /\ nConns' = c
       /\ ws' = [ws EXCEPT ![c] = "open"]
       /\ rl' = [rl EXCEPT ![c] = "alive"]
       /\ finishCallback' = [finishCallback EXCEPT
                               ![Slot(c)] = slotAfterConnect(onConnectedCode)]
       /\ isPrompting' = promptAfterSetup(isPrompting)
       /\ sent' = [sent EXCEPT ![c] =
                     IF Truthy(onConnectedCode)
                     THEN <<[kind |-> "raw", text |-> onConnectedCode.text]>>
                     ELSE <<>>]
       /\ last' = NoticeStep("connection", c, notice("Connected", isPrompting))
    /\ UNCHANGED <<silentLvl, onConnectedCode, listening, nCmds, nMsgs>>

\* ws.on("message"): route by the pending slot, then restore the prompt
Message(c, data) ==
    /\ ws[c] = "open"
    /\ nMsgs < MaxMsgs
    /\ nMsgs' = nMsgs + 1
    /\ LET k == finishCallback[Slot(c)] IN
       IF routeToCallback(k, data)
       THEN \* finishCallback(null, data): the REPL writes writer(data)
            LET w == writer(data, isPrompting) IN
            /\ finishCallback' = IF w.threw THEN finishCallback
                                 ELSE [finishCallback EXCEPT ![Slot(c)] = None]
            /\ last' = Step("message", c, "callback", k, w.threw, data, <<>>,
                            IF w.threw THEN debuggerError(isPrompting, FALSE)
                            ELSE w.out \o <<replWrite(w.line)>>)
       ELSE LET r == discordLog(data, isPrompting) IN
            /\ finishCallback' = finishCallback
            /\ last' = Step("message", c, "log", None, r.threw, data, <<>>,
                            IF r.threw THEN debuggerError(isPrompting, FALSE) ELSE r.out)
    /\ isPrompting' = TRUE
    /\ UNCHANGED <<silentLvl, onConnectedCode, listening, nConns, ws, rl,
                   sent, nCmds>>

\* the REPL's eval option, called with a submitted line and its callback
Eval(c, input, sendThrows) ==
    /\ rl[c] = "alive"
    /\ nCmds < MaxCmds
    /\ nCmds' = nCmds + 1
    /\ LET k == nCmds + 1 IN
       IF isBlank(input)
       THEN \* cb()
            /\ last' = Step("eval", c, "noop", k, FALSE, NoData, input, <<>>)
            /\ UNCHANGED <<isPrompting, sent, finishCallback>>
       ELSE /\ isPrompting' = FALSE
            /\ IF sendThrows
               THEN \* catch (e) { cb(e) }: the REPL reports the error
                    /\ last' = Step("eval", c, "error", k, TRUE, NoData, input,
                                    <<replWrite(Line("", "none", "error", "none"))>>)
                    /\ finishCallback' = [finishCallback EXCEPT
                          ![Slot(c)] = slotAfterSend(@, k, TRUE)]
                    /\ sent' = sent
               ELSE /\ sent' = [sent EXCEPT ![c] =
                                  Append(@, [kind |-> "eval", text |-> input])]
                    /\ finishCallback' = [finishCallback EXCEPT
                          ![Slot(c)] = slotAfterSend(@, k, FALSE)]
                    /\ last' = Step("eval", c, "sent", k, FALSE, NoData, input, <<>>)
    /\ UNCHANGED <<silentLvl, onConnectedCode, listening, nConns, ws, rl, nMsgs>>

\* rl.on("close"), when the operator ends the REPL (.exit, Ctrl+D)
RlClose(c) ==
    /\ rl[c] = "alive"
    /\ rl' = [rl EXCEPT ![c] = "closed"]
    /\ last' = NoticeStep("rlclose", c, notice("Closing", isPrompting))
    /\ UNCHANGED <<silentLvl, onConnectedCode, listening, isPrompting, nConns,
                   ws, finishCallback, sent, nCmds, nMsgs>>

\* what ws.on("close") leaves of the REPL: rl.close()
rlAfterWsCloseMutA(state) == state
rlAfterWsClose(state) == "closed"

\* ws.on("close"); rl.close() runs rl.on("close") when the REPL was alive
WsClose(c) ==
    /\ ws[c] = "open"
    /\ ws' = [ws EXCEPT ![c] = "closed"]
    /\ isPrompting' = FALSE
    /\ rl' = [rl EXCEPT ![c] = rlAfterWsClose(@)]
    /\ last' = NoticeStep("wsclose", c,
                           both(notice("Websocket closed", isPrompting),
                                IF rl[c] = "alive" /\ rl'[c] = "closed"
                                THEN notice("Closing", FALSE) ELSE NoNotice))
    /\ UNCHANGED <<silentLvl, onConnectedCode, listening, nConns,
                   finishCallback, sent, nCmds, nMsgs>>

Next ==
    \/ Listening
    \/ Connection
    \/ \E c \in Conns, data \in Payloads : Message(c, data)
    \/ \E c \in Conns, input \in Inputs, sendThrows \in BOOLEAN :
          Eval(c, input, sendThrows)
    \/ \E c \in Conns : RlClose(c)
    \/ \E c \in Conns : WsClose(c)

Spec == Init /\ [][Next]_vars

\* ------------------------------------------- the formatters on their own
\* values the formatters can be given: wire payloads of every JSON shape and
\* level, and an Error instance (which only the writer can be handed)
Envelopes ==
    { [text |-> "{message,level}", form |-> "object", message |-> m, level |-> l] :
        m \in {"hello", "boom", ""}, l \in {-1, 0, 1, 2, 3} }

WirePayloads ==
    Envelopes \cup
    { [text |-> "2",     form |-> "scalar",  message |-> "undefined", level |-> -1],
      [text |-> "null",  form |-> "null",    message |-> "undefined", level |-> -1],
      [text |-> "hello", form |-> "invalid", message |-> "undefined", level |-> -1] }

ErrorValue == [text |-> "Error: x", form |-> "error", message |-> "x", level |-> -1]

InitFmt ==
    /\ silentLvl \in 0..2
    /\ onConnectedCode = [present |-> FALSE, text |-> <<>>]
    /\ listening = TRUE
    /\ isPrompting \in BOOLEAN
    /\ nConns = 0
    /\ ws = [c \in Conns |-> "none"]
    /\ rl = [c \in Conns |-> "none"]
    /\ finishCallback = [c \in Conns |-> None]
    /\ sent = [c \in Conns |-> <<>>]
    /\ nCmds = 0
    /\ nMsgs = 0
    /\ \E v \in WirePayloads \cup {ErrorValue} :
          last = Step("input", 0, "none", None, FALSE, v, <<>>, <<>>)

\* the REPL writes writer(ret) for a completed command
ApplyWriter ==
    /\ LET w == writer(last.data, isPrompting) IN
       last' = Step("writer", 0, "callback", None, w.threw, last.data, <<>>,
                    IF w.threw THEN <<>> ELSE w.out \o <<replWrite(w.line)>>)
    /\ UNCHANGED <<silentLvl, onConnectedCode, listening, isPrompting, nConns,
                   ws, rl, finishCallback, sent, nCmds, nMsgs>>

\* discordLog(data) for a wire payload
ApplyDiscordLog ==
    /\ last.data.form /= "error"
    /\ LET r == discordLog(last.data, isPrompting) IN
       last' = Step("discordLog", 0, "log", None, r.threw, last.data, <<>>, r.out)
    /\ UNCHANGED <<silentLvl, onConnectedCode, listening, isPrompting, nConns,
                   ws, rl, finishCallback, sent, nCmds, nMsgs>>

NextFmt ==
    \/ ApplyWriter
    \/ ApplyDiscordLog

SpecFmt == InitFmt /\ [][NextFmt]_vars

\* ---------------------------------------------------------------- claims
Live(c) == ws[c] = "open" /\ rl[c] = "alive"
AwaitingReply(c) == finishCallback[c] /= None
RawSend(text) == [kind |-> "raw", text |-> text]

\* C1: while a command is outstanding on a session, the prompt loop takes no
\* further submission, so the recorded callback is never replaced by another
\* submission's callback.
C1_NoSecondSubmission ==
    [][\A c \in Conns :
          AwaitingReply(c) =>
             /\ ~(last'.op = "eval" /\ last'.conn = c /\ last'.route = "sent")
             /\ finishCallback'[c] \in {finishCallback[c], None}]_vars

\* C2: a message that arrives while a command is outstanding is handed to
\* that command's callback, and when the handler returns the slot is empty,
\* so the callback cannot be invoked by a later message.
C2_ReplyDeliveredOnce ==
    [][(last'.op = "message" /\ AwaitingReply(last'.conn)) =>
          /\ last'.route = "callback"
          /\ last'.cb = finishCallback[last'.conn]
          /\ finishCallback'[last'.conn] = None]_vars

\* C3: when the callback or the log display throws inside the message
\* handler, the debugger error is logged, the slot is empty afterwards and
\* isPrompting is true again.
C3_ThrowStillIdle ==
    [][(last'.op = "message" /\ last'.threw) =>
          /\ last'.out = debuggerError(isPrompting, FALSE)
          /\ finishCallback'[last'.conn] = None
          /\ isPrompting' = TRUE]_vars

\* C4: isPrompting is true exactly when the prompt loop of the session is
\* alive and no command is awaiting its reply.
C4_PromptVisibleIff ==
    isPrompting <=>
        (nConns > 0 /\ rl[nConns] = "alive" /\ ~AwaitingReply(nConns))

\* C5: a message that arrives while no command is outstanding goes to the
\* log display (discordLog), no callback is invoked and the slot stays empty.
C5_IdleMessageIsLog ==
    [][(last'.op = "message" /\ ~AwaitingReply(last'.conn)) =>
          /\ last'.route = "log"
          /\ last'.cb = None
          /\ finishCallback' = finishCallback
          /\ (~last'.threw =>
                last'.out = discordLog(last'.data, isPrompting).out)]_vars

C5_Witness ==
    /\ last.op = "message"
    /\ last.route = "log"
    /\ ~last.threw
    /\ Len(last.out) = 1
    /\ ~AwaitingReply(last.conn)

\* C6: submitting an empty or whitespace-only line sends nothing, records no
\* callback, leaves isPrompting as it was, and completes the line's callback
\* at once.
C6_BlankLineNoEffect ==
    [][(last'.op = "eval" /\ trim(last'.input) = <<>>) =>
          /\ sent' = sent
          /\ finishCallback' = finishCallback
          /\ isPrompting' = isPrompting
          /\ last'.route = "noop"
          /\ last'.cb = nCmds']_vars

C6_Witness ==
    /\ last.op = "eval"
    /\ last.input = <<" ", "\n">>
    /\ last.route = "noop"
    /\ AwaitingReply(last.conn)

\* C7: once a connection has closed with a command outstanding, its prompt
\* loop is closed and the stale callback is not invoked, neither by the close
\* nor by any later handler.
C7_CloseDropsStaleCallback ==
    \A c \in Conns :
        ws[c] = "closed" =>
           /\ rl[c] = "closed"
           /\ AwaitingReply(c) =>
                 ~(last.route = "callback" /\ last.cb = finishCallback[c])

C7_Witness ==
    \E c \in Conns :
        /\ ws[c] = "closed"
        /\ rl[c] = "closed"
        /\ AwaitingReply(c)
        /\ last.op = "message"

\* C8: while a session is live, the setup, messages and close of a connection
\* opened after it leave isPrompting and the session's pending slot as they
\* were.
C8_SecondConnectionHarmless ==
    [][\A c \in Conns :
          (Live(c) /\ last'.conn > c
                   /\ last'.op \in {"connection", "message", "wsclose"}) =>
             /\ isPrompting' = isPrompting
             /\ finishCallback'[c] = finishCallback[c]]_vars

\* C9: at most one connection is open, with its message handler and prompt
\* loop, at any time.
C9_SingleSession ==
    Cardinality({c \in Conns : ws[c] = "open"}) <= 1

\* C10: with a non-empty on-connect payload, every connection's first send is
\* that payload, raw, and every later send is an operator command; with an
\* absent or empty payload only operator commands are ever sent.
C10_OnConnectFirst ==
    \A c \in Conns :
        ws[c] /= "none" =>
           IF onConnectedCode.present /\ onConnectedCode.text /= <<>>
           THEN /\ Len(sent[c]) >= 1
                /\ sent[c][1] = RawSend(onConnectedCode.text)
                /\ \A i \in 2..Len(sent[c]) : sent[c][i].kind = "eval"
           ELSE \A i \in 1..Len(sent[c]) : sent[c][i].kind = "eval"

C10_Witness ==
    \E c \in Conns :
        /\ Len(sent[c]) >= 2
        /\ sent[c][1] = RawSend(onConnectedCode.text)
        /\ sent[c][2].kind = "eval"

\* the colour COLORS.client gives a level: 0 info, 2 warning, 3 error
LevelColor(level) ==
    CASE level = 0 -> "cyan"
      [] level = 2 -> "yellow"
      [] level = 3 -> "red"
      [] OTHER     -> "none"

Parses(data) == data.form \in {"object", "scalar"}

C13_LogBySilentLevel ==
    last.op = "discordLog" =>
        IF silentLvl = 2
        THEN /\ ~last.threw
             /\ last.out = << safeLog(Line("", "none", last.data.text, "none"),
                                      isPrompting) >>
        ELSE IF Parses(last.data)
        THEN /\ ~last.threw
             /\ last.out = << safeLog(Line("Vendetta", "cyan", last.data.message,
                                           LevelColor(last.data.level)),
                                      isPrompting) >>
        ELSE last.threw /\ last.out = <<>>

C13_Witness ==
    /\ last.op = "discordLog"
    /\ silentLvl = 2
    /\ last.data.form = "object"
    /\ last.data.level = 3
    /\ last.out[1].line.tag = ""

NoticeOps == {"listening", "connection", "rlclose", "wsclose"}

NoticeText(op) ==
    CASE op = "listening"  -> "Listening"
      [] op = "connection" -> "Connected"
      [] op = "rlclose"    -> "Closing"
      [] op = "wsclose"    -> "Websocket closed"

\* C12: the lifecycle notices (listening, connected, websocket closed,
\* prompt loop closing) print nothing at silent level 2 and print their
\* Debugger-tagged line below 2; the welcome banner prints only at level 0.
C12_NoticesBySilentLevel ==
    /\ last.op \in NoticeOps =>
          IF silentLvl = 2
          THEN last.out = <<>>
          ELSE /\ Len(last.out) >= 1
               /\ last.out[1].line.body = NoticeText(last.op)
               /\ \A i \in 1..Len(last.out) : last.out[i].line.tag = "Debugger"
    /\ last.op = "start" => (last.out /= <<>> <=> silentLvl = 0)

C12_Witness ==
    /\ last.op = "wsclose"
    /\ silentLvl = 1
    /\ Len(last.out) = 2
    /\ last.out[2].line.body = "Closing"

\* C14: a message handled while no command is outstanding leaves isPrompting
\* as it was.
C14_IdleMessageKeepsPrompt ==
    [][(last'.op = "message" /\ ~AwaitingReply(last'.conn)) =>
          isPrompting' = isPrompting]_vars

\* C15: the route of a message is decided by the pending slot alone, whatever
\* the payload: with a command outstanding even a log envelope is consumed as
\* the reply and empties the slot, so the next message is shown as a log.
C15_RouteByStateOnly ==
    [][last'.op = "message" =>
          /\ last'.route = IF AwaitingReply(last'.conn) THEN "callback" ELSE "log"
          /\ (AwaitingReply(last'.conn) /\ last'.data.form = "object") =>
                 /\ last'.cb = finishCallback[last'.conn]
                 /\ finishCallback'[last'.conn] = None]_vars

C15_Witness ==
    /\ nConns = 1
    /\ nCmds = 1
    /\ nMsgs = 2
    /\ \E i \in 1..Len(sent[1]) : sent[1][i].kind = "eval"
    /\ ~AwaitingReply(1)
    /\ last.op = "message"
    /\ last.route = "log"

\* C16: while a command is outstanding on an open connection, a step that is
\* neither an inbound message nor a connection close keeps the slot occupied
\* and does not make isPrompting true.
C16_OnlyMessageOrCloseResumes ==
    [][\A c \in Conns :
          (AwaitingReply(c) /\ ws[c] = "open"
                            /\ last'.op \notin {"message", "wsclose"}) =>
             /\ finishCallback'[c] /= None
             /\ isPrompting' => isPrompting]_vars

\* C17: a connection accepted after another has closed starts with an empty
\* slot, a live prompt loop and isPrompting true, whatever the closed session
\* left behind; and a callback is only ever invoked by a message of its own
\* session, never one left pending in a closed session.
C17_FreshSessionAfterClose ==
    [][/\ last'.op = "connection" =>
             /\ finishCallback'[last'.conn] = None
             /\ isPrompting' = TRUE
             /\ rl'[last'.conn] = "alive"
             /\ ws'[last'.conn] = "open"
       /\ (last'.op = "message" /\ last'.route = "callback") =>
             /\ last'.cb = finishCallback[last'.conn]
             /\ \A c \in Conns :
                   ws[c] = "closed" => finishCallback[c] /= last'.cb]_vars

C17_Witness ==
    /\ last.op = "connection"
    /\ last.conn = 2
    /\ ws[1] = "closed"
    /\ AwaitingReply(1)
    /\ ~AwaitingReply(2)
    /\ isPrompting

\* C18: when ws.send throws for a non-empty line, the line's callback is
\* completed at once with the error, the slot and the sends are as before,
\* and the connection and prompt loop live on.
C18_SendThrowCompletes ==
    [][(last'.op = "eval" /\ last'.threw) =>
          /\ last'.route = "error"
          /\ last'.cb = nCmds'
          /\ finishCallback' = finishCallback
          /\ sent' = sent
          /\ ws' = ws
          /\ rl' = rl]_vars

C18_Witness ==
    /\ last.op = "eval"
    /\ last.threw
    /\ last.route = "error"
    /\ trim(last.input) /= <<>>
    /\ ~AwaitingReply(last.conn)
    /\ Live(last.conn)

NoEvalSent(c) == \A i \in 1..Len(sent[c]) : sent[c][i].kind /= "eval"

\* C19: connection setup leaves the slot empty even when the on-connect
\* payload was sent, and a message that arrives before any command was sent
\* is shown as a log and reaches no callback.
C19_OnConnectNotACommand ==
    /\ last.op = "connection" => ~AwaitingReply(last.conn)
    /\ (last.op = "message" /\ NoEvalSent(last.conn)) =>
          /\ last.route = "log"
          /\ last.cb = None

C19_Witness ==
    /\ last.op = "message"
    /\ last.route = "log"
    /\ Truthy(onConnectedCode)
    /\ sent[last.conn] = <<RawSend(onConnectedCode.text)>>
    /\ nCmds = 0

\* C20: debuggerLog is never called at silent level 2, so its raw branch
\* (which reads the undeclared name) never runs and no notice handler throws.
C20_DebuggerLogGuarded ==
    silentLvl = 2 => (last.dbgLog = 0 /\ (last.op \in NoticeOps => ~last.threw))

C20_Witness ==
    /\ silentLvl = 2
    /\ last.op = "wsclose"
    /\ rl[last.conn] = "closed"
    /\ last.dbgLog = 0

====
